---- MODULE Spec2Model ----
(***************************************************************************)
(* Model of the crawl engine of utilsknowledge:                            *)
(*   WebCrawler.crawl / process_url / extract_code_blocks (WebCrawler.py)  *)
(*   WebHtmlExtractor.get_request_html / get_selenium_html                 *)
(*                                                  (WebHtmlExtractor.py)  *)
(* URLs and hrefs are sequences of string tokens, so that urljoin, the     *)
(* fragment split and str.startswith are computed, not assumed.            *)
(***************************************************************************)
EXTENDS Integers, Sequences, FiniteSets, TLC

VARIABLES
    max_depth,        \* crawl(): max_depth argument
    max_threads,      \* crawl(): max_threads argument
    url_queue,        \* crawl(): url_queue, a FIFO of <<url, depth>>
    processed_urls,   \* crawl(): processed_urls
    calls,            \* process_url invocations: slot 0 is the main thread's
                      \* first call, slots 1.. are the futures of the pool
    dpc,              \* position of the main thread inside crawl()
    expired,          \* time.time() - start_time >= max_execution_time
    html_file,        \* the HTML log (one url per record written)
    code_files,       \* artifact files written by extract_code_blocks
    code_data,        \* self.code_data (metadata records)
    fetchCount,       \* history: requests.get calls issued per url
    putCount,         \* history: url_queue.put calls per url
    admitted,         \* history: entries put on url_queue, with the parent's depth
    dropped,          \* history: resolved links rejected by the scope check
    submitted,        \* history: number of executor.submit calls
    observedExpired,  \* history: the loop condition was evaluated after expiry
    text_file,        \* the text log written by html_to_text (one url per record)
    late_html,        \* history: an HTML record was written after the loop saw the expiry
    f_lib,            \* get_html_dict: reptile_lib ("requests" / "selenium")
    max_retry_times,  \* WebHtmlExtractor.max_retry_times
    f_stack,          \* call stack of get_request_html / get_selenium_html
    f_signal,         \* value travelling down the stack: "-", a return, or "raise"
    f_attempts,       \* history: attempts (one per invocation) of the fetch
    drivers,          \* webdriver.Chrome instances, by the depth of their frame
    f_url,            \* get_html_dict: the url argument
    f_response,       \* status_code of the last response (0: none, or the attempt raised)
    html_dict,        \* the html_dict the fetch returns ("-" until one is returned)
    x_page,           \* extract_code_blocks: the page (url, code elements) of each thread
    x_call,           \* extract_code_blocks: position and locals of each thread
    x_fs,             \* the files under code_dir: one record per path
    x_saved,          \* history: the file written for each block that was saved
    l_node,           \* _detect_language: element.get('class'), a list of class tokens
    l_parent,         \* _detect_language: element.parent.get('class')
    l_text,           \* _detect_language: element.get_text()
    l_pc,             \* "call" before _detect_language runs, "returned" after
    l_result,         \* the label _detect_language returned
    lock,             \* self.lock: 0 when free, else the thread that holds it
    h_call,           \* the HTML write of each thread: position and records left
    h_log,            \* the HTML log as the chunks written, oldest first
    a_urls,           \* crawl_all: urls, the start urls to crawl in sequence
    a_i,              \* crawl_all: position in urls (0 before the first crawl)
    a_pc,             \* crawl_all: "between" crawls, or the crawl() call is "crawling"
    a_fetched,        \* pages whose code blocks the current crawl() call has extracted
    a_files,          \* artifact files under data/code
    self_code_data,   \* self.code_data of the one WebCrawler instance
    metadata_files,   \* the code-metadata file of each start url, as last written
    p_lines,          \* _preserve_code_formatting: content.split('\n') of the <pre> text
    p_pc,             \* "call" before _preserve_code_formatting runs, "returned" after
    p_content,        \* the lines of the content it returned
    t_html,           \* html_to_text: the lines of the HTML log that is re-read
    t_k,              \* html_to_text: number of lines read so far
    t_pc,             \* html_to_text: "reading", "writing", "done" or "aborted"
    text_data,        \* html_to_text: text_data, the entries collected
    t_text,           \* the text file as written ("-" until it is written)
    n_code_text,      \* _generate_block_name: the code text
    n_language,       \* its language argument
    n_context,        \* its context: heading and section
    n_pc,             \* "call" or "returned"
    n_name,           \* the returned name and the rule that gave it
    code_blocks,      \* extract_and_save_code_blocks: the names of the extracted blocks
    b_i,              \* blocks saved so far
    section_counts,   \* section -> times seen
    page_dir,         \* file name -> the block whose content it holds
    saved_files,      \* the file name of each saved block
    b_pc              \* "loop" or "returned"

crawlVars == <<max_depth, max_threads, url_queue, processed_urls, calls, dpc,
               expired, html_file, code_files, code_data, fetchCount, putCount,
               admitted, dropped, submitted, observedExpired, text_file, late_html>>

fetchVars == <<f_lib, max_retry_times, f_stack, f_signal, f_attempts, drivers,
               f_url, f_response, html_dict>>

extractVars == <<x_page, x_call, x_fs, x_saved>>

langVars == <<l_node, l_parent, l_text, l_pc, l_result>>
lockVars == <<lock, h_call, h_log>>
allVars == <<a_urls, a_i, a_pc, a_fetched, a_files, self_code_data, metadata_files>>
formatVars == <<p_lines, p_pc, p_content>>
textVars == <<t_html, t_k, t_pc, text_data, t_text>>
nameVars == <<n_code_text, n_language, n_context, n_pc, n_name>>
saveVars == <<code_blocks, b_i, section_counts, page_dir, saved_files, b_pc>>

nonCrawlVars == <<fetchVars, extractVars, langVars, lockVars, allVars, formatVars, textVars, nameVars, saveVars>>
nonFetchVars == <<crawlVars, extractVars, langVars, lockVars, allVars, formatVars, textVars, nameVars, saveVars>>
nonExtractVars == <<crawlVars, fetchVars, langVars, lockVars, allVars, formatVars, textVars, nameVars, saveVars>>
nonLangVars == <<crawlVars, fetchVars, extractVars, lockVars, allVars, formatVars, textVars, nameVars, saveVars>>
nonLockVars == <<crawlVars, fetchVars, extractVars, langVars, allVars, formatVars, textVars, nameVars, saveVars>>
nonAllVars == <<crawlVars, fetchVars, extractVars, langVars, lockVars, formatVars, textVars, nameVars, saveVars>>
nonFormatVars == <<crawlVars, fetchVars, extractVars, langVars, lockVars, allVars, textVars, nameVars, saveVars>>
nonTextVars == <<crawlVars, fetchVars, extractVars, langVars, lockVars, allVars, formatVars, nameVars, saveVars>>
nonNameVars == <<crawlVars, fetchVars, extractVars, langVars, lockVars, allVars, formatVars, textVars, saveVars>>
nonSaveVars == <<crawlVars, fetchVars, extractVars, langVars, lockVars, allVars, formatVars, textVars, nameVars>>

vars == <<crawlVars, fetchVars, extractVars, langVars, lockVars, allVars, formatVars, textVars, nameVars, saveVars>>

\* ------------------------------------------------------------------ bounds
MaxDepth == 3
MaxThreads == 2
MaxRetry == 3
MaxBaseDelay == 2
MaxWriters == 2
MaxClasses == 2
MaxParentClasses == 1
MaxRecords == 2
MaxSites == 2
MaxLines == 3
MaxIndent == 2
MaxLogLines == 3

\* --------------------------------------------------------------- the site
start_url == <<"https://", "example.com", "/">>
UrlA == <<"https://", "example.com", "/a">>
UrlB == <<"https://", "example.com", "/b">>
UrlOther == <<"https://", "other.org", "/">>
UrlLookalike == <<"https://", "example.com", ".evil.com", "/">>

AllUrls == {start_url, UrlA, UrlB, UrlOther, UrlLookalike}

SchemeTokens == {"https://", "http://"}
PathTokens == {"/", "/a", "/b", "/docs"}

\* <a href=...> values of each page, in document order
PageLinks(url) ==
    CASE url = start_url -> << <<"/a">>, <<"https://", "other.org", "/">>, <<"/b">> >>
      [] url = UrlA -> << <<"/b", "#", "x">>, <<"/b">>, <<"#", "top">> >>
      [] url = UrlB -> << <<"https://", "example.com", ".evil.com", "/">>,
                          <<"mailto:", "me">>, <<"/">> >>
      [] OTHER -> << >>

\* code blocks of each page, in document order: [text, len]
PageBlocks(url) ==
    CASE url = start_url -> << [text |-> "k1", len |-> 20], [text |-> "k1", len |-> 20] >>
      [] url = UrlA -> << [text |-> "k1", len |-> 20], [text |-> "k0", len |-> 3] >>
      [] url = UrlB -> << [text |-> "k2", len |-> 40] >>
      [] url = UrlOther -> << [text |-> "k3", len |-> 30] >>
      [] OTHER -> << >>

\* ------------------------------------------------------------ url helpers
StartsWith(s, p) == Len(p) <= Len(s) /\ SubSeq(s, 1, Len(p)) = p

RECURSIVE FirstIndex(_, _, _)
FirstIndex(s, toks, i) ==
    IF i > Len(s) THEN Len(s) + 1
    ELSE IF s[i] \in toks THEN i ELSE FirstIndex(s, toks, i + 1)

\* f"{parsed_url.scheme}://{parsed_url.netloc}"
SchemeNetloc(url) == SubSeq(url, 1, FirstIndex(url, PathTokens \cup {"#"}, 1) - 1)

\* urljoin(url, href)
urljoin(url, href) ==
    IF href = << >> THEN url
    ELSE IF href[1] \in SchemeTokens THEN href
    ELSE IF href[1] \in PathTokens THEN SchemeNetloc(url) \o href
    ELSE url \o href

\* next_url.split('#')[0]
StripFragment(u) == SubSeq(u, 1, FirstIndex(u, {"#"}, 1) - 1)

domain_prefix == SchemeNetloc(start_url)

\* href.startswith('#') or ...('javascript:') or ...('mailto:')
SkippedHref(href) == href # << >> /\ href[1] \in {"#", "javascript:", "mailto:"}

InScopeMutant(next_url) == next_url # << >> /\ next_url[1] \in SchemeTokens
InScope(next_url) == StartsWith(next_url, domain_prefix)

ChildDepthMutant(depth) == depth
ChildDepth(depth) == depth + 1

MayFollowMutant(depth) == depth <= max_depth
MayFollow(depth) == depth < max_depth

\* ----------------------------------------------------------- code blocks
MinCodeLen == 15

Hash(text) ==
    CASE text = "k0" -> 11 [] text = "k1" -> 23 [] text = "k2" -> 37 [] text = "k3" -> 41
      [] OTHER -> 0

\* first path component of the page url, or "main"
Subfolder(url) ==
    LET p == FirstIndex(url, PathTokens, 1)
    IN  IF p > Len(url) \/ url[p] = "/" THEN "main" ELSE url[p]

SeenBeforeMutant(content_hash, processed_content) == FALSE
\* if content_hash in processed_content: continue
SeenBefore(content_hash, processed_content) == content_hash \in processed_content

\* the while os.path.exists(...) loop: 0 is "<heading>.md", n is "<heading>_n.md"
RECURSIVE FreeSuffix(_, _, _)
FreeSuffix(files, dir, n) ==
    IF \E f \in files : f.dir = dir /\ f.suffix = n
    THEN FreeSuffix(files, dir, n + 1) ELSE n

\* extract_code_blocks over the blocks i.. of a page: <<files, records>>
RECURSIVE ExtractBlocks(_, _, _, _, _, _)
ExtractBlocks(url, blocks, i, seen, files, recs) ==
    IF i > Len(blocks) THEN <<files, recs>>
    ELSE LET b == blocks[i]
         IN  IF b.len < MinCodeLen \/ SeenBefore(Hash(b.text), seen)
             THEN ExtractBlocks(url, blocks, i + 1, seen, files, recs)
             ELSE LET dir == Subfolder(url)
                      f == [dir |-> dir, suffix |-> FreeSuffix(files, dir, 0),
                            text |-> b.text, url |-> url]
                  IN  ExtractBlocks(url, blocks, i + 1, seen \cup {Hash(b.text)},
                                    files \cup {f}, Append(recs, f))

\* ------------------------------------------------------------------ state
Slots == 0 .. MaxThreads + 1
IdleCall == [pc |-> "idle", url |-> << >>, depth |-> 0, i |-> 0, ret |-> "-", status |-> 0]
NewCall(url, depth) ==
    [pc |-> "check", url |-> url, depth |-> depth, i |-> 0, ret |-> "-", status |-> 0]

futures == {s \in Slots \ {0} : calls[s].pc # "idle"}

PoolHasRoomMutant == Cardinality(futures) <= max_threads
\* len(futures) < max_threads
PoolHasRoom == Cardinality(futures) < max_threads

CrawlInit ==
    /\ max_depth \in 0 .. MaxDepth
    /\ max_threads \in 1 .. MaxThreads
    /\ url_queue = << <<start_url, 1>> >>
    /\ processed_urls = {}
    /\ calls = [s \in Slots |-> IF s = 0 THEN NewCall(start_url, 1) ELSE IdleCall]
    /\ dpc = "first"
    /\ expired = FALSE
    /\ html_file = << >>
    /\ code_files = {}
    /\ code_data = << >>
    /\ fetchCount = [u \in AllUrls |-> 0]
    /\ putCount = [u \in AllUrls |-> IF u = start_url THEN 1 ELSE 0]
    /\ admitted = {[url |-> start_url, depth |-> 1, pdepth |-> 0, late |-> FALSE]}
    /\ dropped = {}
    /\ submitted = 0
    /\ observedExpired = FALSE
    /\ text_file = << >>
    /\ late_html = FALSE

\* ------------------------------------------------------------ process_url
Finish(s, ret) == [calls EXCEPT ![s].pc = "done", ![s].ret = ret, ![s].status = 0]

\* HTTP status codes a server answers with
StatusCodes == {200, 204, 500}

StatusOkMutant(code) == code >= 200 /\ code <= 299
\* response.status_code == 200
StatusOk(code) == code = 200

OnExceptionMutant == "raised"
\* except Exception as e: logging.warning(...); return None
OnException == "None"

\* if url in processed_urls: return None
process_url_check(s) ==
    /\ calls[s].pc = "check"
    /\ calls' = IF calls[s].url \in processed_urls
                THEN Finish(s, "None")
                ELSE [calls EXCEPT ![s].pc = "mark"]
    /\ UNCHANGED <<max_depth, max_threads, url_queue, processed_urls, dpc, expired,
                   html_file, code_files, code_data, fetchCount, putCount, admitted,
                   dropped, submitted, observedExpired, text_file,
                   late_html, nonCrawlVars>>

\* with self.lock: processed_urls.add(url)
process_url_mark(s) ==
    /\ calls[s].pc = "mark"
    /\ processed_urls' = processed_urls \cup {calls[s].url}
    /\ calls' = [calls EXCEPT ![s].pc = "fetch"]
    /\ UNCHANGED <<max_depth, max_threads, url_queue, dpc, expired, html_file,
                   code_files, code_data, fetchCount, putCount, admitted, dropped,
                   submitted, observedExpired, text_file,
                   late_html, nonCrawlVars>>

\* response = requests.get(url, headers=headers, timeout=30): a response, or an exception
process_url_fetch(s) ==
    /\ calls[s].pc = "fetch"
    /\ fetchCount' = [fetchCount EXCEPT ![calls[s].url] = @ + 1]
    /\ \/ \E code \in StatusCodes :
             calls' = [calls EXCEPT ![s].pc = "status", ![s].status = code]
       \/ calls' = Finish(s, OnException)
    /\ UNCHANGED <<max_depth, max_threads, url_queue, processed_urls, dpc, expired,
                   html_file, code_files, code_data, putCount, admitted, dropped,
                   submitted, observedExpired, text_file,
                   late_html, nonCrawlVars>>

\* if response.status_code != 200: return None
process_url_status(s) ==
    /\ calls[s].pc = "status"
    /\ calls' = IF StatusOk(calls[s].status)
                THEN [calls EXCEPT ![s].pc = "save", ![s].status = 0]
                ELSE Finish(s, "None")
    /\ UNCHANGED <<max_depth, max_threads, url_queue, processed_urls, dpc, expired,
                   html_file, code_files, code_data, fetchCount, putCount, admitted,
                   dropped, submitted, observedExpired, text_file, late_html,
                   nonCrawlVars>>

\* with self.lock: html_file.write(json.dumps(html_data) + "\n")
process_url_save(s) ==
    /\ calls[s].pc = "save"
    /\ html_file' = Append(html_file, calls[s].url)
    /\ late_html' = (late_html \/ observedExpired)
    /\ calls' = [calls EXCEPT ![s].pc = "extract"]
    /\ UNCHANGED <<max_depth, max_threads, url_queue, processed_urls, dpc, expired,
                   code_files, code_data, fetchCount, putCount, admitted, dropped,
                   submitted, observedExpired, text_file, nonCrawlVars>>

\* code_blocks = self.extract_code_blocks(...); self.code_data.extend(code_blocks)
process_url_extract(s) ==
    /\ calls[s].pc = "extract"
    /\ LET r == ExtractBlocks(calls[s].url, PageBlocks(calls[s].url), 1, {},
                              code_files, << >>)
       IN  /\ code_files' = r[1]
           /\ code_data' = code_data \o r[2]
    /\ calls' = IF MayFollow(calls[s].depth) /\ PageLinks(calls[s].url) # << >>
                THEN [calls EXCEPT ![s].pc = "links", ![s].i = 1]
                ELSE Finish(s, "html_data")
    /\ UNCHANGED <<max_depth, max_threads, url_queue, processed_urls, dpc, expired,
                   html_file, fetchCount, putCount, admitted, dropped, submitted,
                   observedExpired, text_file,
                   late_html, nonCrawlVars>>

\* one iteration of: for link in links
process_url_link(s) ==
    /\ calls[s].pc = "links"
    /\ LET c == calls[s]
           href == PageLinks(c.url)[c.i]
           next_url == StripFragment(urljoin(c.url, href))
           put == ~SkippedHref(href) /\ InScope(next_url) /\ next_url \notin processed_urls
           out == ~SkippedHref(href) /\ ~InScope(next_url)
       IN  /\ url_queue' = IF put THEN Append(url_queue, <<next_url, ChildDepth(c.depth)>>)
                           ELSE url_queue
           /\ putCount' = IF put THEN [putCount EXCEPT ![next_url] = @ + 1] ELSE putCount
           /\ admitted' = IF put
                          THEN admitted \cup {[url |-> next_url, depth |-> ChildDepth(c.depth),
                                               pdepth |-> c.depth, late |-> observedExpired]}
                          ELSE admitted
           /\ dropped' = IF out THEN dropped \cup {next_url} ELSE dropped
           /\ calls' = IF c.i = Len(PageLinks(c.url))
                       THEN Finish(s, "html_data")
                       ELSE [calls EXCEPT ![s].i = c.i + 1]
    /\ UNCHANGED <<max_depth, max_threads, processed_urls, dpc, expired, html_file,
                   code_files, code_data, fetchCount, submitted, observedExpired, text_file,
                   late_html, nonCrawlVars>>

\* ------------------------------------------------------------------ crawl
\* first_result = process_url(start_url, 1); then start_time = time.time()
crawl_first ==
    /\ dpc = "first"
    /\ calls[0].pc = "done"
    /\ dpc' = IF calls[0].ret = "raised" THEN "aborted" ELSE "loop"
    /\ UNCHANGED <<max_depth, max_threads, url_queue, processed_urls, calls, expired,
                   html_file, code_files, code_data, fetchCount, putCount, admitted,
                   dropped, submitted, observedExpired, text_file,
                   late_html, nonCrawlVars>>

\* the wall clock passes start_time + max_execution_time
deadline_passes ==
    /\ dpc \notin {"first", "done", "aborted"}
    /\ ~expired
    /\ expired' = TRUE
    /\ UNCHANGED <<max_depth, max_threads, url_queue, processed_urls, calls, dpc,
                   html_file, code_files, code_data, fetchCount, putCount, admitted,
                   dropped, submitted, observedExpired, text_file,
                   late_html, nonCrawlVars>>

LoopConditionMutant == url_queue # << >> \/ futures # {}
LoopConditionQueueOnly == url_queue # << >> /\ ~expired
\* (not url_queue.empty() or futures) and time.time() - start_time < max_execution_time
LoopCondition == (url_queue # << >> \/ futures # {}) /\ ~expired

crawl_loop ==
    /\ dpc = "loop"
    /\ dpc' = IF LoopCondition THEN "inner" ELSE "shutdown"
    /\ observedExpired' = (observedExpired \/ expired)
    /\ UNCHANGED <<max_depth, max_threads, url_queue, processed_urls, calls, expired,
                   html_file, code_files, code_data, fetchCount, putCount, admitted,
                   dropped, submitted, text_file, late_html, nonCrawlVars>>

\* while not url_queue.empty() and len(futures) < max_threads: get, maybe submit
crawl_inner ==
    /\ dpc = "inner"
    /\ IF url_queue # << >> /\ PoolHasRoom
       THEN LET url == Head(url_queue)[1]
                depth == Head(url_queue)[2]
                free == CHOOSE s \in Slots \ {0} :
                           /\ calls[s].pc = "idle"
                           /\ \A t \in Slots \ {0} : calls[t].pc = "idle" => s <= t
            IN  /\ url_queue' = Tail(url_queue)
                /\ IF url \notin processed_urls
                   THEN /\ calls' = [calls EXCEPT ![free] = NewCall(url, depth)]
                        /\ submitted' = submitted + 1
                   ELSE UNCHANGED <<calls, submitted>>
                /\ dpc' = dpc
       ELSE /\ dpc' = "collect"
            /\ UNCHANGED <<url_queue, calls, submitted>>
    /\ UNCHANGED <<max_depth, max_threads, processed_urls, expired, html_file,
                   code_files, code_data, fetchCount, putCount, admitted, dropped,
                   observedExpired, text_file,
                   late_html, nonCrawlVars>>

completedMutant == {}
\* completed = [f for f in futures if f.done()]
completed == {s \in futures : calls[s].pc = "done"}

\* futures.remove(future) for the completed ones; sleep if there were none
crawl_collect ==
    /\ dpc = "collect"
    /\ calls' = [s \in Slots |-> IF s \in completed THEN IdleCall ELSE calls[s]]
    /\ dpc' = IF completed = {} THEN "sleep" ELSE "loop"
    /\ UNCHANGED <<max_depth, max_threads, url_queue, processed_urls, expired,
                   html_file, code_files, code_data, fetchCount, putCount, admitted,
                   dropped, submitted, observedExpired, text_file,
                   late_html, nonCrawlVars>>

\* time.sleep(0.1)
crawl_sleep ==
    /\ dpc = "sleep"
    /\ dpc' = "loop"
    /\ UNCHANGED <<max_depth, max_threads, url_queue, processed_urls, calls, expired,
                   html_file, code_files, code_data, fetchCount, putCount, admitted,
                   dropped, submitted, observedExpired, text_file,
                   late_html, nonCrawlVars>>

ShutdownWaitsMutant == TRUE
\* ThreadPoolExecutor.__exit__: shutdown(wait=True) joins every submitted task
ShutdownWaits == \A s \in futures : calls[s].pc = "done"

\* the timeout warning, then leaving "with ThreadPoolExecutor(...)"
crawl_shutdown ==
    /\ dpc = "shutdown"
    /\ ShutdownWaits
    /\ dpc' = "to_text"
    /\ UNCHANGED <<max_depth, max_threads, url_queue, processed_urls, calls, expired,
                   html_file, code_files, code_data, fetchCount, putCount, admitted,
                   dropped, submitted, observedExpired, text_file,
                   late_html, nonCrawlVars>>

\* self.html_to_text(html_dir, text_dir): one text record per HTML record read;
\* then the code metadata file is written and crawl() returns processed_urls
html_to_text ==
    /\ dpc = "to_text"
    /\ text_file' = html_file
    /\ dpc' = "done"
    /\ UNCHANGED <<max_depth, max_threads, url_queue, processed_urls, calls, expired,
                   html_file, code_files, code_data, fetchCount, putCount, admitted,
                   dropped, submitted, observedExpired, late_html, nonCrawlVars>>

process_url(s) ==
    \/ process_url_check(s)
    \/ process_url_mark(s)
    \/ process_url_fetch(s)
    \/ process_url_status(s)
    \/ process_url_save(s)
    \/ process_url_extract(s)
    \/ process_url_link(s)

\* ------------------------------------------------- WebHtmlExtractor fetch
\* self.time_out (constructor default)
time_out_default == 20

MaxFrames == MaxRetry + 1

\* time_out=None falls back to self.time_out; << >> stands for None
EffectiveTimeOut(arg) == IF arg = << >> THEN time_out_default ELSE arg[1]

BackoffMutant(ts) == ts
\* time_sleep * 1.5, on exact fractions [num, den]
Backoff(ts) == [num |-> ts.num * 3, den |-> ts.den * 2]

Frame(url, retry_times, time_sleep, time_out_arg, pc) ==
    [url |-> url, retry_times |-> retry_times, time_sleep |-> time_sleep,
     time_out |-> EffectiveTimeOut(time_out_arg), pc |-> pc, pending |-> "-"]

\* html_dict = {'url': url, 'host_url': ..., 'text': None, 'status': False}
DefaultDict(url) == [url |-> url, text |-> "None", status |-> FALSE]

\* html_dict['url'] = response.url; html_dict['text'] = response.text; html_dict['status'] = True
FilledDict(url) == [url |-> url, text |-> "body", status |-> TRUE]

Top == f_stack[Len(f_stack)]
SetTop(f) == [f_stack EXCEPT ![Len(f_stack)] = f]
Pop == SubSeq(f_stack, 1, Len(f_stack) - 1)

FetchIdle ==
    /\ f_lib = "-"
    /\ max_retry_times = 0
    /\ f_stack = << >>
    /\ f_signal = "-"
    /\ f_attempts = 0
    /\ drivers = [k \in 1 .. MaxFrames |-> "none"]
    /\ f_url = << >>
    /\ f_response = 0
    /\ html_dict = "-"

CrawlIdle ==
    /\ max_depth = 0
    /\ max_threads = 0
    /\ url_queue = << >>
    /\ processed_urls = {}
    /\ calls = [s \in Slots |-> IdleCall]
    /\ dpc = "done"
    /\ expired = FALSE
    /\ html_file = << >>
    /\ code_files = {}
    /\ code_data = << >>
    /\ fetchCount = [u \in AllUrls |-> 0]
    /\ putCount = [u \in AllUrls |-> 0]
    /\ admitted = {}
    /\ dropped = {}
    /\ submitted = 0
    /\ observedExpired = FALSE
    /\ text_file = << >>
    /\ late_html = FALSE

\* get_html_dict(url, reptile_lib, time_sleep, time_out) on a fresh extractor
FetchInit ==
    /\ f_lib \in {"requests", "selenium"}
    /\ max_retry_times \in 0 .. MaxRetry
    /\ f_url \in {start_url, UrlA}
    /\ \E base \in 0 .. MaxBaseDelay, time_out_arg \in {<< >>, <<5>>} :
          f_stack = << Frame(f_url, 1, [num |-> base, den |-> 1], time_out_arg,
                             IF f_lib = "requests" THEN "request" ELSE "create") >>
    /\ f_signal = "-"
    /\ f_attempts = 1
    /\ drivers = [k \in 1 .. MaxFrames |-> "none"]
    /\ f_response = 0
    /\ html_dict = "-"

\* if retry_times <= self.max_retry_times
MayRetry(retry_times) == retry_times <= max_retry_times

RetryUrlMutant(url) == << >>
\* url=url in the recursive call (the parameter's default is None, << >> here)
RetryUrl(url) == url

\* the recursive call: url, time_sleep*1.5, retry_times+1, time_out left to its default
RetryCall(pc) ==
    Append(SetTop([Top EXCEPT !.pc = "await"]),
           Frame(RetryUrl(Top.url), Top.retry_times + 1, Backoff(Top.time_sleep), << >>, pc))

\* get_request_html: time.sleep, requests.get/post, status check
get_request_html_attempt ==
    /\ f_lib = "requests"
    /\ f_stack # << >>
    /\ Top.pc = "request"
    /\ \/ \E code \in StatusCodes :
             /\ f_response' = code
             /\ IF StatusOk(code)
                THEN /\ f_stack' = Pop
                     /\ f_signal' = "status_true"
                     /\ html_dict' = FilledDict(Top.url)
                ELSE /\ f_stack' = SetTop([Top EXCEPT !.pc = "retry"])
                     /\ UNCHANGED <<f_signal, html_dict>>
       \/ \E exception \in {"Timeout", "RequestException"} :
             /\ f_response' = 0
             /\ f_stack' = SetTop([Top EXCEPT !.pc = "retry"])
             /\ UNCHANGED <<f_signal, html_dict>>
    /\ UNCHANGED <<nonFetchVars, f_lib, max_retry_times, f_attempts, drivers, f_url>>

\* get_request_html: retry or give up
get_request_html_retry ==
    /\ f_lib = "requests"
    /\ f_stack # << >>
    /\ Top.pc = "retry"
    /\ IF MayRetry(Top.retry_times)
       THEN /\ f_stack' = RetryCall("request")
            /\ f_attempts' = f_attempts + 1
            /\ UNCHANGED <<f_signal, html_dict>>
       ELSE /\ f_stack' = Pop
            /\ f_signal' = "status_false"
            /\ html_dict' = DefaultDict(Top.url)
            /\ f_attempts' = f_attempts
    /\ UNCHANGED <<nonFetchVars, f_lib, max_retry_times, drivers, f_url, f_response>>

\* return self.get_request_html(...): hand the inner result to the caller
get_request_html_return ==
    /\ f_lib = "requests"
    /\ f_stack # << >>
    /\ Top.pc = "await"
    /\ f_signal # "-"
    /\ f_stack' = Pop
    /\ UNCHANGED <<nonFetchVars, f_lib, max_retry_times, f_signal, f_attempts, drivers,
                   f_url, f_response, html_dict>>

\* driver = webdriver.Chrome(options=options)
get_selenium_html_create ==
    /\ f_lib = "selenium"
    /\ f_stack # << >>
    /\ Top.pc = "create"
    /\ \E outcome \in {"ok", "WebDriverException"} :
          IF outcome = "ok"
          THEN /\ drivers' = [drivers EXCEPT ![Len(f_stack)] = "open"]
               /\ f_stack' = SetTop([Top EXCEPT !.pc = "load"])
          ELSE /\ drivers' = drivers
               /\ f_stack' = SetTop([Top EXCEPT !.pc = "except"])
    /\ UNCHANGED <<nonFetchVars, f_lib, max_retry_times, f_signal, f_attempts,
                   f_url, f_response, html_dict>>

\* sleep, driver.get(url), wait.until(...), page_source, current_url
get_selenium_html_load ==
    /\ f_lib = "selenium"
    /\ f_stack # << >>
    /\ Top.pc = "load"
    /\ \E outcome \in {"ok", "WebDriverException", "TimeoutException", "OtherException"} :
          /\ f_stack' = SetTop(
                 CASE outcome = "ok" -> [Top EXCEPT !.pc = "finally", !.pending = "status_true"]
                   [] outcome = "OtherException" ->
                          [Top EXCEPT !.pc = "finally", !.pending = "raise"]
                   [] OTHER -> [Top EXCEPT !.pc = "except"])
          /\ html_dict' = IF outcome = "ok" THEN FilledDict(Top.url) ELSE html_dict
    /\ UNCHANGED <<nonFetchVars, f_lib, max_retry_times, f_signal, f_attempts, drivers,
                   f_url, f_response>>

\* except (WebDriverException, TimeoutException): retry (quitting the driver first) or give up
get_selenium_html_except ==
    /\ f_lib = "selenium"
    /\ f_stack # << >>
    /\ Top.pc = "except"
    /\ IF MayRetry(Top.retry_times)
       THEN /\ drivers' = [drivers EXCEPT ![Len(f_stack)] = IF @ = "none" THEN @ ELSE "quit"]
            /\ f_stack' = RetryCall("create")
            /\ f_attempts' = f_attempts + 1
            /\ html_dict' = html_dict
       ELSE /\ f_stack' = SetTop([Top EXCEPT !.pc = "finally", !.pending = "status_false"])
            /\ html_dict' = DefaultDict(Top.url)
            /\ UNCHANGED <<drivers, f_attempts>>
    /\ UNCHANGED <<nonFetchVars, f_lib, max_retry_times, f_signal, f_url, f_response>>

\* the recursive call inside the except block has returned or raised
get_selenium_html_resume ==
    /\ f_lib = "selenium"
    /\ f_stack # << >>
    /\ Top.pc = "await"
    /\ f_signal # "-"
    /\ f_stack' = SetTop([Top EXCEPT !.pc = "finally", !.pending = f_signal])
    /\ f_signal' = "-"
    /\ UNCHANGED <<nonFetchVars, f_lib, max_retry_times, f_attempts, drivers,
                   f_url, f_response, html_dict>>

FinallyQuitsMutant(k) == drivers[k] # "none" /\ Top.pending # "status_true"
\* finally: if driver: driver.quit()
FinallyQuits(k) == drivers[k] # "none"

\* the finally block, then the frame returns html_dict / the inner result, or re-raises
get_selenium_html_finally ==
    /\ f_lib = "selenium"
    /\ f_stack # << >>
    /\ Top.pc = "finally"
    /\ drivers' = IF FinallyQuits(Len(f_stack))
                  THEN [drivers EXCEPT ![Len(f_stack)] = "quit"]
                  ELSE drivers
    /\ f_stack' = Pop
    /\ f_signal' = Top.pending
    /\ UNCHANGED <<nonFetchVars, f_lib, max_retry_times, f_attempts, f_url, f_response,
                   html_dict>>

\* ------------------------------------- extract_code_blocks, step by step
\* process_url calls extract_code_blocks outside self.lock: the threads of the
\* pool run it side by side on the same code_dir
Writers == 1 .. MaxWriters

UrlDocsA == <<"https://", "example.com", "/docs", "/a">>
UrlDocsB == <<"https://", "example.com", "/docs", "/b">>

\* pages: url and code elements [text, len, heading]; heading "" is "none found"
ExtractPages ==
    { [url |-> UrlDocsA,
       blocks |-> << [text |-> "k1", len |-> 20, heading |-> ""],
                     [text |-> "k2", len |-> 40, heading |-> "Usage!"] >>],
      [url |-> UrlDocsB,
       blocks |-> << [text |-> "k2", len |-> 40, heading |-> "Usage"],
                     [text |-> "k0", len |-> 3, heading |-> ""],
                     [text |-> "k1", len |-> 20, heading |-> ""] >>],
      [url |-> start_url,
       blocks |-> << [text |-> "k1", len |-> 20, heading |-> ""] >>] }

\* if not heading: heading = "Code Example"
HeadingOrFallback(heading) == IF heading = "" THEN "Code Example" ELSE heading

\* re.sub(r'[^\w\s]', '', heading).strip(); re.sub(r'\s+', '_', ...)
safe_heading(heading) ==
    CASE heading = "Code Example" -> "Code_Example"
      [] heading = "Usage!" -> "Usage"
      [] OTHER -> heading

\* while os.path.exists(os.path.join(save_dir, filename)): suffix 0 is
\* "<safe_heading>.md", suffix n is "<safe_heading>_n.md"
RECURSIVE FreeFilename(_, _, _, _)
FreeFilename(fs, dir, name, n) ==
    IF \E f \in fs : f.dir = dir /\ f.name = name /\ f.suffix = n
    THEN FreeFilename(fs, dir, name, n + 1) ELSE n

ExtractIdle ==
    /\ x_page = [w \in Writers |-> [url |-> << >>, blocks |-> << >>]]
    /\ x_call = [w \in Writers |-> [pc |-> "done", i |-> 0, seen |-> {}, suffix |-> 0]]
    /\ x_fs = {}
    /\ x_saved = {}

ExtractInit ==
    /\ x_page \in [Writers -> ExtractPages]
    /\ x_call = [w \in Writers |-> [pc |-> "element", i |-> 1, seen |-> {}, suffix |-> 0]]
    /\ x_fs = {}
    /\ x_saved = {}

\* for i, element in enumerate(code_elements): the length and hash checks, the
\* heading, save_dir, and the os.path.exists loop that picks the filename
extract_code_blocks_name(w) ==
    /\ x_call[w].pc = "element"
    /\ LET c == x_call[w]
           blocks == x_page[w].blocks
       IN  IF c.i > Len(blocks)
           THEN x_call' = [x_call EXCEPT ![w].pc = "done"]
           ELSE LET b == blocks[c.i]
                IN  IF b.len < MinCodeLen \/ SeenBefore(Hash(b.text), c.seen)
                    THEN x_call' = [x_call EXCEPT ![w].i = c.i + 1]
                    ELSE x_call' =
                           [x_call EXCEPT
                              ![w].pc = "open",
                              ![w].seen = c.seen \cup {Hash(b.text)},
                              ![w].suffix =
                                  FreeFilename(x_fs, Subfolder(x_page[w].url),
                                               safe_heading(HeadingOrFallback(b.heading)), 0)]
    /\ UNCHANGED <<nonExtractVars, x_page, x_fs, x_saved>>

\* with open(file_path, 'w', encoding='utf-8') as f: f.write(...)
extract_code_blocks_open(w) ==
    /\ x_call[w].pc = "open"
    /\ LET c == x_call[w]
           b == x_page[w].blocks[c.i]
           file == [dir |-> Subfolder(x_page[w].url),
                    name |-> safe_heading(HeadingOrFallback(b.heading)),
                    suffix |-> c.suffix, text |-> b.text, url |-> x_page[w].url]
       IN  /\ x_fs' = {f \in x_fs : ~(f.dir = file.dir /\ f.name = file.name
                                         /\ f.suffix = file.suffix)} \cup {file}
           /\ x_saved' = x_saved \cup {file}
           /\ x_call' = [x_call EXCEPT ![w].pc = "element", ![w].i = c.i + 1]
    /\ UNCHANGED <<nonExtractVars, x_page>>

\* -------------------------------------------------------- _detect_language
\* a class token is a sequence of chunks, "-" being a chunk of its own:
\* "language-python" is <<"language", "-", "python">>; a label is a sequence of
\* chunks too, << >> being the empty string
ClassTokens ==
    { <<"language", "-", "python">>,
      <<"language", "-", "ruby">>,
      <<"language", "-">>,
      <<"x", "-", "language", "-", "ruby">>,
      <<"hljs">>,
      <<"highlight">>,
      <<"JavaScript">> }

\* the lists of at most n class tokens
RECURSIVE ClassLists(_)
ClassLists(n) ==
    IF n = 0 THEN {<< >>}
    ELSE ClassLists(n - 1) \cup
         {Append(l, c) : l \in {m \in ClassLists(n - 1) : Len(m) = n - 1}, c \in ClassTokens}

\* ['python', 'javascript', 'js', 'java', 'cpp', ...], in the order of the loop
KnownLanguages ==
    <<"python", "javascript", "js", "java", "cpp", "csharp", "ruby", "go", "php",
      "html", "css", "sql", "bash", "shell">>

\* the known languages lang with: lang in chunk.lower()
LangsIn(chunk) ==
    CASE chunk = "python" -> {"python"}
      [] chunk = "ruby" -> {"ruby"}
      [] chunk = "hljs" -> {"js"}
      [] chunk = "JavaScript" -> {"javascript", "js", "java"}
      [] OTHER -> {}

\* cls.startswith('language-')
StartsWithLanguage(cls) == StartsWith(cls, <<"language", "-">>)

\* index of the first chunk in toks at or after i, Len + 1 if none
NextChunk(cls, toks, i) == FirstIndex(cls, toks, i)

\* cls.split('-')[1]
SplitDashSecond(cls) ==
    LET d == NextChunk(cls, {"-"}, 1)
    IN  SubSeq(cls, d + 1, NextChunk(cls, {"-"}, d + 1) - 1)

\* position of the first 'language-' inside cls at or after i, 0 if none
RECURSIVE FindLanguage(_, _)
FindLanguage(cls, i) ==
    IF i + 1 > Len(cls) THEN 0
    ELSE IF cls[i] = "language" /\ cls[i + 1] = "-" THEN i
    ELSE FindLanguage(cls, i + 1)

\* cls.split('language-')[1]: what follows the first 'language-', up to the next one
SplitLanguageSecond(cls) ==
    LET k == FindLanguage(cls, 1)
        n == FindLanguage(cls, k + 2)
    IN  SubSeq(cls, k + 2, IF n = 0 THEN Len(cls) ELSE n - 1)

\* for lang in [...]: if lang in cls.lower(): return lang
RECURSIVE FirstKnownLanguage(_, _)
FirstKnownLanguage(cls, i) ==
    IF i > Len(KnownLanguages) THEN [found |-> FALSE, label |-> << >>]
    ELSE IF \E k \in DOMAIN cls : KnownLanguages[i] \in LangsIn(cls[k])
         THEN [found |-> TRUE, label |-> <<KnownLanguages[i]>>]
         ELSE FirstKnownLanguage(cls, i + 1)

\* the body of: for cls in el.get('class'), for one class token
ClassHint(cls) ==
    IF StartsWithLanguage(cls)
    THEN [found |-> TRUE, label |-> SplitDashSecond(cls)]
    ELSE IF FindLanguage(cls, 1) # 0 /\ SplitLanguageSecond(cls) # << >>
         THEN [found |-> TRUE, label |-> SplitLanguageSecond(cls)]
         ELSE FirstKnownLanguage(cls, 1)

\* for el in [element, element.parent]: for cls in el.get('class'): first return wins
RECURSIVE FirstClassHint(_, _)
FirstClassHint(classes, i) ==
    IF i > Len(classes) THEN [found |-> FALSE, label |-> << >>]
    ELSE IF ClassHint(classes[i]).found THEN ClassHint(classes[i])
         ELSE FirstClassHint(classes, i + 1)

\* code texts, each with the regular expressions of the cascade that it matches
CodeTexts ==
    { [text |-> "plain words", matches |-> {}],
      [text |-> "import os", matches |-> {"python"}],
      [text |-> "const q = 'SELECT 1'", matches |-> {"javascript", "sql"}],
      [text |-> "<p>.a { }</p>", matches |-> {"html", "css"}],
      [text |-> "public void f( std::", matches |-> {"cfamily", "std"}],
      [text |-> "private int g( Console.WriteLine", matches |-> {"cfamily", "writeline"}],
      [text |-> "protected int h(", matches |-> {"cfamily"}],
      [text |-> "$ ls", matches |-> {"bash"}] }

\* the re.search cascade over element.get_text(), ending in 'text'
ContentLanguage(code_text) ==
    LET m == code_text.matches
    IN  CASE "python" \in m -> <<"python">>
          [] "javascript" \in m -> <<"javascript">>
          [] "html" \in m -> <<"html">>
          [] "css" \in m -> <<"css">>
          [] "sql" \in m -> <<"sql">>
          [] "cfamily" \in m ->
                 (CASE "println" \in m -> <<"java">>
                    [] "writeline" \in m -> <<"csharp">>
                    [] "std" \in m -> <<"cpp">>
                    [] OTHER -> <<"java">>)
          [] "bash" \in m -> <<"bash">>
          [] OTHER -> <<"text">>

\* _detect_language(element)
DetectLanguage(node, parent, code_text) ==
    LET hint == FirstClassHint(node \o parent, 1)
    IN  IF hint.found THEN hint.label ELSE ContentLanguage(code_text)

LangIdle ==
    /\ l_node = << >>
    /\ l_parent = << >>
    /\ l_text = [text |-> "", matches |-> {}]
    /\ l_pc = "returned"
    /\ l_result = << >>

LangInit ==
    /\ l_node \in ClassLists(MaxClasses)
    /\ l_parent \in ClassLists(MaxParentClasses)
    /\ l_text \in CodeTexts
    /\ l_pc = "call"
    /\ l_result = << >>

\* language = self._detect_language(element)
detect_language ==
    /\ l_pc = "call"
    /\ l_result' = DetectLanguage(l_node, l_parent, l_text)
    /\ l_pc' = "returned"
    /\ UNCHANGED <<nonLangVars, l_node, l_parent, l_text>>

\* ------------------------------------------- the HTML log under self.lock
\* each thread of the pool writes the records of the pages it fetched; a record
\* reaches the file as its JSON text followed by the line end
LockIdle ==
    /\ lock = 0
    /\ h_call = [w \in Writers |-> [pc |-> "done", left |-> 0]]
    /\ h_log = << >>

LockInit ==
    /\ lock = 0
    /\ h_call \in [Writers -> {[pc |-> "acquire", left |-> n] : n \in 1 .. MaxRecords}]
    /\ h_log = << >>

LockFreeMutant == TRUE
\* with self.lock: blocks until no thread holds the lock
LockFree == lock = 0

\* with self.lock: (enter); open(html_dir, 'a')
lock_acquire(w) ==
    /\ h_call[w].pc = "acquire"
    /\ LockFree
    /\ lock' = w
    /\ h_call' = [h_call EXCEPT ![w].pc = "json"]
    /\ UNCHANGED <<nonLockVars, h_log>>

\* html_file.write(json.dumps(html_data, ensure_ascii=False) + "\n"): the JSON text
html_file_write_json(w) ==
    /\ h_call[w].pc = "json"
    /\ h_log' = Append(h_log, [writer |-> w, record |-> h_call[w].left, part |-> "json"])
    /\ h_call' = [h_call EXCEPT ![w].pc = "newline"]
    /\ UNCHANGED <<nonLockVars, lock>>

\* html_file.write(...): the line end; the file is closed
html_file_write_newline(w) ==
    /\ h_call[w].pc = "newline"
    /\ h_log' = Append(h_log, [writer |-> w, record |-> h_call[w].left, part |-> "newline"])
    /\ h_call' = [h_call EXCEPT ![w].pc = "release"]
    /\ UNCHANGED <<nonLockVars, lock>>

\* with self.lock: (exit); the thread goes on to its next page, if any
lock_release(w) ==
    /\ h_call[w].pc = "release"
    /\ lock' = IF lock = w THEN 0 ELSE lock
    /\ h_call' = [h_call EXCEPT ![w].left = @ - 1,
                                ![w].pc = IF h_call[w].left > 1 THEN "acquire" ELSE "done"]
    /\ UNCHANGED <<nonLockVars, h_log>>

\* ---------------------------------------------------------------- crawl_all
\* the pages a crawl() of each start url can fetch
SitePages(url) == IF url = start_url THEN {start_url, UrlA, UrlB} ELSE {url}

\* urls: the sequences of at most n start urls
RECURSIVE UrlLists(_)
UrlLists(n) ==
    IF n = 0 THEN {<< >>}
    ELSE UrlLists(n - 1) \cup
         {Append(l, u) : l \in {m \in UrlLists(n - 1) : Len(m) = n - 1},
                         u \in {start_url, UrlOther}}

AllIdle ==
    /\ a_urls = << >>
    /\ a_i = 0
    /\ a_pc = "between"
    /\ a_fetched = {}
    /\ a_files = {}
    /\ self_code_data = << >>
    /\ metadata_files = [u \in {start_url, UrlOther} |-> << >>]

\* crawler = WebCrawler(): self.code_data = []; crawler.crawl_all(urls)
AllInit ==
    /\ a_urls \in UrlLists(MaxSites) \ {<< >>}
    /\ a_i = 0
    /\ a_pc = "between"
    /\ a_fetched = {}
    /\ a_files = {}
    /\ self_code_data = << >>
    /\ metadata_files = [u \in {start_url, UrlOther} |-> << >>]

\* for i, url in enumerate(urls): processed = self.crawl(url, max_depth, max_threads)
crawl_all_next ==
    /\ a_pc = "between"
    /\ a_i < Len(a_urls)
    /\ a_i' = a_i + 1
    /\ a_pc' = "crawling"
    /\ a_fetched' = {}
    /\ UNCHANGED <<nonAllVars, a_urls, a_files, self_code_data, metadata_files>>

\* process_url of one page: extract_code_blocks, then self.code_data.extend(code_blocks)
crawl_page(page) ==
    /\ a_pc = "crawling"
    /\ page \in SitePages(a_urls[a_i]) \ a_fetched
    /\ LET r == ExtractBlocks(page, PageBlocks(page), 1, {}, a_files, << >>)
       IN  /\ a_files' = r[1]
           /\ self_code_data' = self_code_data \o r[2]
    /\ a_fetched' = a_fetched \cup {page}
    /\ UNCHANGED <<nonAllVars, a_urls, a_i, a_pc, metadata_files>>

\* if self.code_data: open(code_metadata_path, 'w'); one line for each item
crawl_save_metadata ==
    /\ a_pc = "crawling"
    /\ metadata_files' = IF self_code_data # << >>
                         THEN [metadata_files EXCEPT ![a_urls[a_i]] = self_code_data]
                         ELSE metadata_files
    /\ a_pc' = "between"
    /\ UNCHANGED <<nonAllVars, a_urls, a_i, a_fetched, a_files, self_code_data>>

\* ------------------------------------------------ _preserve_code_formatting
\* a line is its leading whitespace (a width) and what follows it ("" on a
\* blank line, which may still hold whitespace)
CodeLines == [indent : 0 .. MaxIndent, body : {"", "code"}]

\* the contents of at most n lines; '' splits into one empty line
RECURSIVE LineLists(_)
LineLists(n) ==
    IF n = 1 THEN {<<l>> : l \in CodeLines}
    ELSE LineLists(n - 1) \cup
         {Append(c, l) : c \in {m \in LineLists(n - 1) : Len(m) = n - 1}, l \in CodeLines}

\* if line.strip()
NonBlank(lines) == {k \in DOMAIN lines : lines[k].body # ""}

\* min over the non-blank lines of len(line) - len(line.lstrip())
min_indent(lines) ==
    CHOOSE n \in {lines[k].indent : k \in NonBlank(lines)} :
        \A k \in NonBlank(lines) : n <= lines[k].indent

\* if len(lines) > 1: ... line[min_indent:] for the non-blank lines
PreserveCodeFormatting(lines) ==
    IF Len(lines) > 1 /\ NonBlank(lines) # {}
    THEN [k \in DOMAIN lines |->
             IF k \in NonBlank(lines)
             THEN [lines[k] EXCEPT !.indent = @ - min_indent(lines)]
             ELSE lines[k]]
    ELSE lines

FormatIdle ==
    /\ p_lines = << >>
    /\ p_pc = "returned"
    /\ p_content = << >>

FormatInit ==
    /\ p_lines \in LineLists(MaxLines)
    /\ p_pc = "call"
    /\ p_content = << >>

\* code_text = self._preserve_code_formatting(element), element a <pre>
preserve_code_formatting ==
    /\ p_pc = "call"
    /\ p_content' = PreserveCodeFormatting(p_lines)
    /\ p_pc' = "returned"
    /\ UNCHANGED <<nonFormatVars, p_lines>>

\* ------------------------------------------------- html_to_text, line by line
\* a line of the HTML log: not JSON at all, JSON that is no object, or a record
LogLines ==
    {[kind |-> "malformed", url |-> << >>, text |-> ""],
     [kind |-> "array", url |-> << >>, text |-> ""]}
    \cup [kind : {"record"}, url : {UrlA, UrlB}, text : {"", "<html>"}]

\* the logs of at most n lines
RECURSIVE LogFiles(_)
LogFiles(n) ==
    IF n = 0 THEN {<< >>}
    ELSE LogFiles(n - 1) \cup
         {Append(f, l) : f \in {g \in LogFiles(n - 1) : Len(g) = n - 1}, l \in LogLines}

CaughtInLoopMutant == FALSE
\* except json.JSONDecodeError / except Exception: both belong to the try
\* inside the for loop, so the loop goes on with the next line
CaughtInLoop == TRUE

TextIdle ==
    /\ t_html = << >>
    /\ t_k = 0
    /\ t_pc = "done"
    /\ text_data = << >>
    /\ t_text = "-"

TextInit ==
    /\ t_html \in LogFiles(MaxLogLines)
    /\ t_k = 0
    /\ t_pc = "reading"
    /\ text_data = << >>
    /\ t_text = "-"

\* one iteration of: for line in f
html_to_text_line ==
    /\ t_pc = "reading"
    /\ t_k < Len(t_html)
    /\ t_k' = t_k + 1
    /\ LET line == t_html[t_k + 1]
       IN  CASE line.kind = "malformed" ->
                  \* json.loads(line) raises JSONDecodeError
                  /\ t_pc' = IF CaughtInLoop THEN "reading" ELSE "aborted"
                  /\ text_data' = text_data
             [] line.kind = "array" ->
                  \* html_dict.get raises AttributeError: except Exception
                  /\ t_pc' = IF CaughtInLoop THEN "reading" ELSE "aborted"
                  /\ text_data' = text_data
             [] OTHER ->
                  \* if not html_content: continue; else text_data.append(text_entry)
                  /\ t_pc' = "reading"
                  /\ text_data' = IF line.text = "" THEN text_data
                                  ELSE Append(text_data, line.url)
    /\ UNCHANGED <<nonTextVars, t_html, t_text>>

\* the for loop is over
html_to_text_eof ==
    /\ t_pc = "reading"
    /\ t_k = Len(t_html)
    /\ t_pc' = "writing"
    /\ UNCHANGED <<nonTextVars, t_html, t_k, text_data, t_text>>

\* with open(text_file, 'w'): one line for each entry of text_data
html_to_text_write ==
    /\ t_pc = "writing"
    /\ t_text' = text_data
    /\ t_pc' = "done"
    /\ UNCHANGED <<nonTextVars, t_html, t_k, text_data>>

\* ------------------------------------------- Html2Text._generate_block_name
\* patterns: the languages that have a declaration pattern
patterns == {"python", "javascript", "java", "go", "ruby", "php", "csharp"}

NameLanguages == patterns \cup {"text"}

NameTexts ==
    {"def foo(x):", "public class Foo {", "func Add(a, b int) int {",
     "const add = (a, b) => a + b", "x = 1", "function hello() { echo 1; }"}

\* match.groups() of re.search(patterns[language], code_text): one entry per
\* capture group of the pattern, "" for a group that took no part (None),
\* << >> when the pattern does not match
MatchGroups(language, code_text) ==
    CASE code_text = "def foo(x):" /\ language = "python" -> <<"def", "foo">>
      [] code_text = "def foo(x):" /\ language = "ruby" -> <<"foo">>
      [] code_text = "public class Foo {" /\ language = "python" -> <<"class", "Foo">>
      [] code_text = "public class Foo {" /\ language = "javascript" -> <<"class", "Foo", "">>
      [] code_text = "public class Foo {" /\ language = "java" -> <<"Foo">>
      [] code_text = "public class Foo {" /\ language = "csharp" -> <<"Foo">>
      [] code_text = "func Add(a, b int) int {" /\ language = "go" -> <<"Add">>
      [] code_text = "const add = (a, b) => a + b" /\ language = "javascript" -> <<"", "", "add">>
      [] code_text = "function hello() { echo 1; }" /\ language = "javascript" -> <<"function", "hello", "">>
      [] code_text = "function hello() { echo 1; }" /\ language = "php" -> <<"hello">>
      [] OTHER -> << >>

\* match.group(1) of the generic patterns, in their order; "" for no match
generic_patterns(code_text) ==
    CASE code_text = "def foo(x):" -> <<"foo", "", "", "">>
      [] code_text = "public class Foo {" -> <<"class", "", "", "">>
      [] code_text = "const add = (a, b) => a + b" -> <<"", "add", "", "">>
      [] code_text = "function hello() { echo 1; }" -> <<"hello", "", "", "">>
      [] OTHER -> <<"", "", "", "">>

\* the cleaned first line when its length is within 10 .. 40, "" otherwise
clean_name(code_text) ==
    CASE code_text = "def foo(x):" -> "def_foox"
      [] code_text = "public class Foo {" -> "public_class_foo"
      [] code_text = "func Add(a, b int) int {" -> "func_adda_b_int_int"
      [] code_text = "const add = (a, b) => a + b" -> "const_add_a_b_a_b"
      [] code_text = "function hello() { echo 1; }" -> "function_hello_echo_1"
      [] OTHER -> ""

\* context['heading'] / context['section'], "" for a missing or empty one
Headings == {"", "Setup Guide"}
Sections == {"", "API"}

\* re.sub(r'[^\w\s]', '', s).strip(); re.sub(r'\s+', '_', s).lower()
Normalize(s) ==
    CASE s = "Setup Guide" -> "setup_guide"
      [] s = "API" -> "api"
      [] OTHER -> ""

\* the entries of a sequence from position k on
RECURSIVE FirstNonEmptyFrom(_, _)
FirstNonEmptyFrom(groups, k) ==
    IF k > Len(groups) THEN ""
    ELSE IF groups[k] # "" THEN groups[k]
    ELSE FirstNonEmptyFrom(groups, k + 1)

\* next((g for g in match.groups()[1:] if g), None)
SpecificName(groups) == FirstNonEmptyFrom(groups, 2)

\* for pattern in generic_patterns: the first match.group(1)
GenericName(code_text) == FirstNonEmptyFrom(generic_patterns(code_text), 1)

\* f"{name}_{language}" is <<name, language>>,
\* f"{language}_snippet_{content_hash}" is <<language, "snippet", code_text>>
GenerateBlockName(code_text, language, context) ==
    LET groups == IF language \in patterns THEN MatchGroups(language, code_text)
                  ELSE << >>
    IN  IF groups # << >> /\ SpecificName(groups) # ""
        THEN [rule |-> "specific", name |-> <<SpecificName(groups), language>>]
        ELSE IF GenericName(code_text) # ""
        THEN [rule |-> "generic", name |-> <<GenericName(code_text), language>>]
        ELSE IF Normalize(context.heading) # ""
        THEN [rule |-> "heading", name |-> <<Normalize(context.heading), language>>]
        ELSE IF Normalize(context.section) # ""
        THEN [rule |-> "section", name |-> <<Normalize(context.section), language>>]
        ELSE IF clean_name(code_text) # ""
        THEN [rule |-> "first_line", name |-> <<clean_name(code_text), language>>]
        ELSE [rule |-> "hash", name |-> <<language, "snippet", code_text>>]

NameIdle ==
    /\ n_code_text = ""
    /\ n_language = ""
    /\ n_context = [heading |-> "", section |-> ""]
    /\ n_pc = "returned"
    /\ n_name = [rule |-> "-", name |-> << >>]

NameInit ==
    /\ n_code_text \in NameTexts
    /\ n_language \in NameLanguages
    /\ n_context \in [heading : Headings, section : Sections]
    /\ n_pc = "call"
    /\ n_name = [rule |-> "-", name |-> << >>]

\* name = self._generate_block_name(code_text, language, context)
generate_block_name ==
    /\ n_pc = "call"
    /\ n_name' = GenerateBlockName(n_code_text, n_language, n_context)
    /\ n_pc' = "returned"
    /\ UNCHANGED <<nonNameVars, n_code_text, n_language, n_context>>

\* ------------------------------------ Html2Text.extract_and_save_code_blocks
MaxBlocks == 3

\* block['name'] as a sequence of pieces: foo, foo_2, foo.2, bar
BlockNames ==
    {<<"foo">>, <<"foo", "_", "2">>, <<"foo", ".", "2">>, <<"bar">>}

\* the lists of at most n block names that extract_code_blocks may return
RECURSIVE BlockLists(_)
BlockLists(n) ==
    IF n = 0 THEN {<< >>}
    ELSE BlockLists(n - 1) \cup
         {Append(l, b) : l \in {m \in BlockLists(n - 1) : Len(m) = n - 1},
                         b \in BlockNames}

\* block['name'].replace('.', '_')
ReplaceDots(name) ==
    [k \in DOMAIN name |-> IF name[k] = "." THEN "_" ELSE name[k]]

\* the decimal digits of a count, as the f-string writes it
Decimal(n) ==
    CASE n = 0 -> "0" [] n = 1 -> "1" [] n = 2 -> "2" [] n = 3 -> "3"
      [] n = 4 -> "4" [] n = 5 -> "5" [] n = 6 -> "6" [] n = 7 -> "7"
      [] n = 8 -> "8" [] n = 9 -> "9"

\* file_name of a block whose section was counted `count` times before
FileName(section, count) ==
    IF count > 0
    THEN section \o <<"_", Decimal(count + 1), ".md">>
    ELSE section \o <<".md">>

\* section_counts[section], 0 for a section that is not a key
SectionCount(section) ==
    IF section \in DOMAIN section_counts THEN section_counts[section] ELSE 0

SaveIdle ==
    /\ code_blocks = << >>
    /\ b_i = 0
    /\ section_counts = << >>
    /\ page_dir = << >>
    /\ saved_files = << >>
    /\ b_pc = "returned"

\* after code_blocks = self.extract_code_blocks(soup); saved_files = [];
\* section_counts = {}; page_dir is new
SaveInit ==
    /\ code_blocks \in BlockLists(MaxBlocks)
    /\ b_i = 0
    /\ section_counts = << >>
    /\ page_dir = << >>
    /\ saved_files = << >>
    /\ b_pc = "loop"

\* one iteration of: for block in code_blocks
save_block ==
    /\ b_pc = "loop"
    /\ b_i < Len(code_blocks)
    /\ b_i' = b_i + 1
    /\ LET section == ReplaceDots(code_blocks[b_i + 1])
           file_name == FileName(section, SectionCount(section))
       IN  /\ section_counts' =
                [s \in DOMAIN section_counts \cup {section} |->
                    IF s = section THEN SectionCount(section) + 1
                    ELSE section_counts[s]]
           \* open(file_path, 'w') creates the file or replaces its content
           /\ page_dir' =
                [f \in DOMAIN page_dir \cup {file_name} |->
                    IF f = file_name THEN b_i + 1 ELSE page_dir[f]]
           /\ saved_files' = Append(saved_files, file_name)
    /\ UNCHANGED <<nonSaveVars, code_blocks, b_pc>>

\* return saved_files
save_return ==
    /\ b_pc = "loop"
    /\ b_i = Len(code_blocks)
    /\ b_pc' = "returned"
    /\ UNCHANGED <<nonSaveVars, code_blocks, b_i, section_counts, page_dir, saved_files>>

\* ---------------------------------------------------------- specifications
Init == CrawlInit /\ FetchIdle /\ ExtractIdle /\ LangIdle /\ LockIdle /\ AllIdle /\ FormatIdle /\ TextIdle /\ NameIdle /\ SaveIdle

Next ==
    \/ \E s \in Slots : process_url(s)
    \/ crawl_first
    \/ deadline_passes
    \/ crawl_loop
    \/ crawl_inner
    \/ crawl_collect
    \/ crawl_sleep
    \/ crawl_shutdown
    \/ html_to_text

Spec == Init /\ [][Next]_vars

\* the crawl without the deadline, every thread scheduled again and again and
\* every requests.get returning (timeout=30)
NextLive ==
    \/ \E s \in Slots : process_url(s)
    \/ crawl_first
    \/ crawl_loop
    \/ crawl_inner
    \/ crawl_collect
    \/ crawl_sleep
    \/ crawl_shutdown
    \/ html_to_text

Fairness ==
    /\ WF_vars(\E s \in Slots : process_url(s))
    /\ WF_vars(crawl_first \/ crawl_loop \/ crawl_inner \/ crawl_collect
                  \/ crawl_sleep \/ crawl_shutdown \/ html_to_text)

SpecLive == Init /\ [][NextLive]_vars /\ Fairness

InitFetch == CrawlIdle /\ FetchInit /\ ExtractIdle /\ LangIdle /\ LockIdle /\ AllIdle /\ FormatIdle /\ TextIdle /\ NameIdle /\ SaveIdle

NextFetch ==
    \/ get_request_html_attempt
    \/ get_request_html_retry
    \/ get_request_html_return
    \/ get_selenium_html_create
    \/ get_selenium_html_load
    \/ get_selenium_html_except
    \/ get_selenium_html_resume
    \/ get_selenium_html_finally

SpecFetch == InitFetch /\ [][NextFetch]_vars

InitExtract == CrawlIdle /\ FetchIdle /\ ExtractInit /\ LangIdle /\ LockIdle /\ AllIdle /\ FormatIdle /\ TextIdle /\ NameIdle /\ SaveIdle

NextExtract ==
    \/ \E w \in Writers : extract_code_blocks_name(w)
    \/ \E w \in Writers : extract_code_blocks_open(w)

SpecExtract == InitExtract /\ [][NextExtract]_vars

InitLang == CrawlIdle /\ FetchIdle /\ ExtractIdle /\ LangInit /\ LockIdle /\ AllIdle /\ FormatIdle /\ TextIdle /\ NameIdle /\ SaveIdle

NextLang == detect_language

SpecLang == InitLang /\ [][NextLang]_vars

InitLock == CrawlIdle /\ FetchIdle /\ ExtractIdle /\ LangIdle /\ LockInit /\ AllIdle /\ FormatIdle /\ TextIdle /\ NameIdle /\ SaveIdle

NextLock ==
    \/ \E w \in Writers : lock_acquire(w)
    \/ \E w \in Writers : html_file_write_json(w)
    \/ \E w \in Writers : html_file_write_newline(w)
    \/ \E w \in Writers : lock_release(w)

SpecLock == InitLock /\ [][NextLock]_vars

InitAll == CrawlIdle /\ FetchIdle /\ ExtractIdle /\ LangIdle /\ LockIdle /\ AllInit /\ FormatIdle /\ TextIdle /\ NameIdle /\ SaveIdle

NextAll ==
    \/ crawl_all_next
    \/ \E page \in AllUrls : crawl_page(page)
    \/ crawl_save_metadata

SpecAll == InitAll /\ [][NextAll]_vars

InitFormat == CrawlIdle /\ FetchIdle /\ ExtractIdle /\ LangIdle /\ LockIdle /\ AllIdle /\ FormatInit /\ TextIdle /\ NameIdle /\ SaveIdle

NextFormat == preserve_code_formatting

SpecFormat == InitFormat /\ [][NextFormat]_vars

InitText == CrawlIdle /\ FetchIdle /\ ExtractIdle /\ LangIdle /\ LockIdle /\ AllIdle /\ FormatIdle /\ TextInit /\ NameIdle /\ SaveIdle

NextText ==
    \/ html_to_text_line
    \/ html_to_text_eof
    \/ html_to_text_write

SpecText == InitText /\ [][NextText]_vars

InitName == CrawlIdle /\ FetchIdle /\ ExtractIdle /\ LangIdle /\ LockIdle /\ AllIdle /\ FormatIdle /\ TextIdle /\ NameInit /\ SaveIdle

NextName == generate_block_name

SpecName == InitName /\ [][NextName]_vars

InitSave == CrawlIdle /\ FetchIdle /\ ExtractIdle /\ LangIdle /\ LockIdle /\ AllIdle /\ FormatIdle /\ TextIdle /\ NameIdle /\ SaveInit

NextSave ==
    \/ save_block
    \/ save_return

SpecSave == InitSave /\ [][NextSave]_vars

\* ------------------------------------------------------------------ claims
AdmittedPairs == {<<e.url, e.depth>> : e \in admitted}

\* C1: in one crawl() run no url is fetched more than once (at most one
\* process_url invocation per url gets past the visited check and issues the request).
C1_NoUrlFetchedTwice == \A u \in AllUrls : fetchCount[u] <= 1

\* C2: in one crawl() run each normalized url is put on the frontier queue at most once.
C2_PutAtMostOnce == \A u \in AllUrls : putCount[u] <= 1

\* C3: when every attempt fails, a fetch with max_retry_times = M has performed
\* exactly M attempts when it returns the failure result (requests and selenium).
C3_ExactlyMAttempts ==
    (f_stack = << >> /\ f_signal = "status_false") => f_attempts = max_retry_times

\* C4: within one crawl run two code blocks with identical content produce exactly
\* one artifact file and one metadata record, whichever pages they appear on.
C4_OneArtifactPerContent ==
    \A k \in {"k0", "k1", "k2"} :
        /\ Cardinality({f \in code_files : f.text = k}) <= 1
        /\ Cardinality({n \in DOMAIN code_data : code_data[n].text = k}) <= 1

\* C5 (as stated): with max depth 1 and the seed page fetched, the frontier admits
\* the seed and both in-scope links at depth 1, and never the out-of-scope link.
C5_AsStated ==
    (max_depth = 1 /\ calls[0].ret = "html_data") =>
        /\ {<<start_url, 1>>, <<UrlA, 1>>, <<UrlB, 1>>} \subseteq AdmittedPairs
        /\ \A e \in admitted : e.url # UrlOther

\* C5 (amended): the seed is at depth 1, so with max depth 1 the frontier holds only
\* the seed; with max depth 2 and the seed page fetched it admits exactly the seed
\* (depth 1) and both in-scope links (depth 2); the out-of-scope link is never admitted.
C5_SeedAtDepthOne ==
    /\ max_depth = 1 => AdmittedPairs = {<<start_url, 1>>}
    /\ (max_depth = 2 /\ calls[0].ret = "html_data") =>
           AdmittedPairs = {<<start_url, 1>>, <<UrlA, 2>>, <<UrlB, 2>>}
    /\ \A e \in admitted : e.url # UrlOther

C5_Witness ==
    /\ max_depth = 1
    /\ calls[0].ret = "html_data"
    /\ dpc = "done"
    /\ html_file = <<start_url>>

\* C6: every entry (child, d) put by process_url while handling a page at depth p
\* has d = p + 1, and a page at depth p >= max_depth puts no entry.
C6_ChildDepth ==
    \A e \in admitted :
        e.pdepth >= 1 => (e.depth = e.pdepth + 1 /\ e.pdepth < max_depth)

C6_Witness ==
    /\ \E e \in admitted : e.pdepth = 2 /\ e.depth = 3
    /\ \E s \in Slots : /\ calls[s].ret = "html_data"
                        /\ calls[s].depth = max_depth
                        /\ PageLinks(calls[s].url) # << >>

\* C7: every url put on the frontier by process_url starts with the seed's
\* scheme://host prefix; a link that resolves outside the prefix is dropped, is
\* never enqueued, and the scan of the page goes on with the next link.
C7_InScopeOnly ==
    /\ \A e \in admitted : StartsWith(e.url, domain_prefix)
    /\ \A u \in dropped : putCount[u] = 0
    /\ \A s \in Slots :
          calls[s].pc = "links" \/ (calls[s].ret = "html_data" /\ calls[s].i > 0) =>
              \A j \in 1 .. Len(PageLinks(calls[s].url)) :
                  LET href == PageLinks(calls[s].url)[j]
                      u == StripFragment(urljoin(calls[s].url, href))
                  IN  (/\ j < calls[s].i \/ calls[s].pc = "done"
                       /\ ~SkippedHref(href)
                       /\ ~StartsWith(u, domain_prefix)) => u \in dropped

C7_Witness ==
    /\ UrlOther \in dropped
    /\ \E e \in admitted : e.url = UrlB /\ e.pdepth = 1
    /\ \E e \in admitted : e.url = UrlLookalike
    /\ calls[0].ret = "html_data"

\* C8: every driver created by get_selenium_html has been quit once the call that
\* created it has returned or raised.
C8_DriversQuit ==
    \A k \in 1 .. MaxFrames : k > Len(f_stack) => drivers[k] # "open"

C8_Witness ==
    /\ f_lib = "selenium"
    /\ f_stack = << >>
    /\ f_signal = "raise"
    /\ drivers[1] = "quit"
    /\ drivers[2] = "quit"

\* C9 (as stated): once the deadline has passed no further url is submitted to the pool.
C9_AsStated == [][expired => submitted' = submitted]_vars

\* C9 (amended): once the loop condition has been evaluated after the deadline, no
\* further url is submitted and the loop body (dispatch, collect, sleep) is not re-entered.
C9_AfterObservedExpiry ==
    [][observedExpired =>
          (submitted' = submitted /\ dpc' \notin {"inner", "collect", "sleep"})]_vars

C9_Witness ==
    /\ observedExpired
    /\ dpc = "done"
    /\ url_queue # << >>
    /\ submitted > 0

\* C10 (as stated): once the deadline has passed no entry is put on the frontier queue.
C10_AsStated == [][expired => putCount' = putCount]_vars

\* C10 (amended): once the loop condition has been evaluated after the deadline,
\* nothing is taken from the frontier queue any more: running workers may still
\* append entries, and every entry stays where it is.
C10_NoDequeueAfterExpiry ==
    [][observedExpired =>
          (/\ Len(url_queue') >= Len(url_queue)
           /\ SubSeq(url_queue', 1, Len(url_queue)) = url_queue)]_vars

C10_Witness ==
    /\ dpc = "done"
    /\ \E e \in admitted :
          /\ e.late
          /\ \E n \in DOMAIN url_queue : url_queue[n] = <<e.url, e.depth>>

\* C11: when the deadline ends the crawl, crawl() leaves the pool normally and
\* only once no worker is still running, and every HTML record, also one written
\* after the loop saw the expiry, is in the log that the text pass reads.
C11_ReturnsAfterWorkers ==
    observedExpired =>
        /\ dpc # "aborted"
        /\ dpc \in {"to_text", "done"} =>
               \A s \in Slots : calls[s].pc \in {"idle", "done"}
        /\ dpc = "done" => text_file = html_file

C11_Witness == dpc = "done" /\ observedExpired /\ late_html /\ text_file # << >>

\* C13: at every moment at most max_threads process_url invocations are
\* executing or pending in the pool.
C13_PoolBounded ==
    /\ Cardinality(futures) <= max_threads
    /\ Cardinality({s \in Slots \ {0} : calls[s].pc \notin {"idle", "done"}}) <= max_threads

C13_Witness ==
    /\ max_threads = MaxThreads
    /\ Cardinality({s \in futures : calls[s].pc \notin {"idle", "done"}}) = max_threads
    /\ url_queue # << >>
    /\ dpc = "collect"

\* C16: a fetch failure for one URL (non-200 status or an exception inside
\* process_url) never aborts the crawl: the call ends with None, and a crawl
\* that ends without the deadline has dequeued every entry of the frontier.
C16_FailureStaysInWorker ==
    /\ dpc # "aborted"
    /\ \A s \in Slots : calls[s].ret # "raised"
    /\ (dpc \in {"to_text", "done"} /\ ~observedExpired) =>
           /\ url_queue = << >>
           /\ \A e \in admitted : fetchCount[e.url] >= 1

C16_Witness ==
    /\ dpc = "done"
    /\ ~observedExpired
    /\ max_threads = 1
    /\ fetchCount[UrlA] >= 1
    /\ html_file = <<start_url, UrlB>>

\* calls whose request has been issued
Fetched == {s \in Slots : calls[s].pc \in {"status", "save", "extract", "links"}}

\* C18 (as stated): for every max_depth, 0 included, a fetch is issued only for
\* an entry whose depth is at most max_depth, the seed included.
C18_AsStated == \A s \in Fetched : calls[s].depth <= max_depth

\* C18 (amended): every url other than the seed is fetched at a depth of at most
\* max_depth; the seed is fetched at depth 1 whatever max_depth is, so with
\* max_depth = 0 the seed is the one url that is fetched.
C18_DepthBoundExceptSeed ==
    /\ \A s \in Fetched : calls[s].depth <= max_depth \/ (s = 0 /\ calls[s].depth = 1)
    /\ max_depth = 0 => \A u \in AllUrls \ {start_url} : fetchCount[u] = 0

C18_Witness ==
    /\ max_depth = 2
    /\ \E s \in Fetched : s # 0 /\ calls[s].depth = max_depth /\ calls[s].pc = "extract"
    /\ fetchCount[start_url] = 1

\* C14: in get_request_html and get_selenium_html the delay before each retry is
\* 1.5 times the delay before the previous attempt, starting from the configured
\* time_sleep; for a positive base delay the delays increase strictly, and there
\* are at most max_retry_times retries.
C14_BackoffRatio ==
    /\ f_stack # << >> => f_stack[1].retry_times = 1 /\ f_stack[1].time_sleep.den = 1
    /\ \A k \in 1 .. Len(f_stack) - 1 :
          LET prev == f_stack[k].time_sleep
              next == f_stack[k + 1].time_sleep
          IN  /\ 2 * next.num * prev.den = 3 * prev.num * next.den
              /\ prev.num > 0 => next.num * prev.den > prev.num * next.den
              /\ f_stack[k + 1].retry_times = f_stack[k].retry_times + 1
    /\ Len(f_stack) - 1 <= max_retry_times
    /\ f_attempts - 1 <= max_retry_times

C14_Witness ==
    /\ max_retry_times = MaxRetry
    /\ Len(f_stack) = MaxRetry + 1
    /\ f_stack[1].time_sleep.num = MaxBaseDelay
    /\ Top.time_sleep # f_stack[1].time_sleep

\* C15: after the last allowed attempt has failed (non-200 status, timeout or
\* transport error) get_request_html returns, and does not raise, a result with
\* status = False and text = None whose url is the requested url.
C15_FailureResult ==
    f_lib = "requests" =>
        /\ f_signal # "raise"
        /\ f_stack = << >> => f_signal \in {"status_true", "status_false"}
        /\ f_signal = "status_false" =>
               /\ html_dict = [url |-> f_url, text |-> "None", status |-> FALSE]
               /\ f_attempts = max_retry_times + 1

C15_Witness ==
    /\ f_lib = "requests"
    /\ f_stack = << >>
    /\ f_signal = "status_false"
    /\ max_retry_times = MaxRetry
    /\ f_attempts = MaxRetry + 1
    /\ f_response = 500
    /\ html_dict.url = UrlA

\* C19: a direct-strategy fetch reports success (status = True with the body
\* present) if and only if the response status is a 2xx code (200 to 299).
C19_SuccessIff2xx ==
    (f_lib = "requests" /\ f_stack = << >> /\ f_response # 0) =>
        ((html_dict.status /\ html_dict.text = "body") <=> f_response \in 200 .. 299)

\* C12: if every fetch eventually returns (the site has finitely many in-scope
\* urls), crawl() terminates: the dispatcher loop neither blocks nor spins for
\* ever, with an empty frontier and no work in flight or with an empty frontier
\* and workers still running.
C12_Terminates == <>(dpc = "done")

C12_Witness ==
    /\ dpc = "done"
    /\ ~expired
    /\ url_queue = << >>
    /\ futures = {}
    /\ submitted >= 2
    /\ text_file = html_file

\* C17: every code block persisted during a run is stored in its own artifact
\* file: a later block with the same heading-derived name in the same directory
\* gets a numeric suffix, and no file written for one block is overwritten by
\* another block, also when different workers save concurrently.
C17_OwnArtifact == x_saved \subseteq x_fs

\* the class tokens "language-<x>" with a non-empty x, of the node and its parent
ExplicitTokens ==
    {c \in {(l_node \o l_parent)[k] : k \in DOMAIN (l_node \o l_parent)} :
        StartsWithLanguage(c) /\ Len(c) > 2}

\* C20: if any class token of the node or of its parent is an explicit
\* language-<x> token, _detect_language returns that x, whatever other class
\* tokens contain a known-language substring.
C20_ExplicitTokenWins ==
    (l_pc = "returned" /\ ExplicitTokens # {}) =>
        \E c \in ExplicitTokens : l_result = SubSeq(c, 3, Len(c))

\* C21: _detect_language never fails and returns a non-empty label for every
\* node and every class list; when no class hint and no content pattern
\* matches, the label is the fallback 'text'.
C21_NonEmptyLabel ==
    l_pc = "returned" =>
        /\ l_result # << >>
        /\ (~FirstClassHint(l_node \o l_parent, 1).found /\ l_text.matches = {}) =>
               l_result = <<"text">>

\* C29: every retry attempt of get_request_html and get_selenium_html uses the
\* same request parameters as the first attempt of the call, in particular the
\* same timeout and url; only the delay and the attempt counter change.
C29_SameParameters ==
    \A k \in DOMAIN f_stack :
        /\ f_stack[k].time_out = f_stack[1].time_out
        /\ f_stack[k].url = f_stack[1].url

\* C27: when the crawl loop exits before the deadline no work is lost: the
\* frontier is empty, no worker is in flight, and every url ever put on the
\* frontier is in the processed set that crawl() returns.
C27_NoWorkLost ==
    (dpc \in {"shutdown", "to_text", "done"} /\ ~observedExpired) =>
        /\ url_queue = << >>
        /\ futures = {}
        /\ \A e \in admitted : e.url \in processed_urls
        /\ \A u \in AllUrls : putCount[u] > 0 => u \in processed_urls

C27_Witness ==
    /\ dpc = "done"
    /\ ~observedExpired
    /\ putCount[UrlB] >= 2
    /\ processed_urls = {start_url, UrlA, UrlB}

\* C24: when two byte-identical code blocks appear on the same page only the
\* first is persisted (one artifact file, one metadata record); the second is
\* skipped.  The seed page holds the block "k1" twice.
C24_SecondCopySkipped ==
    LET files == {f \in code_files : f.url = start_url /\ f.text = "k1"}
        recs == {n \in DOMAIN code_data :
                    code_data[n].url = start_url /\ code_data[n].text = "k1"}
    IN  /\ Cardinality(files) <= 1
        /\ Cardinality(recs) <= 1
        /\ calls[0].ret = "html_data" => Cardinality(files) = 1 /\ Cardinality(recs) = 1

C24_Witness ==
    /\ calls[0].ret = "html_data"
    /\ PageBlocks(start_url)[1].text = PageBlocks(start_url)[2].text
    /\ \E f \in code_files : f.url = start_url /\ f.text = "k1" /\ f.suffix = 0
    /\ Len(code_data) = 1

\* threads that are inside the with self.lock block of the HTML write
Writing == {w \in Writers : h_call[w].pc \in {"json", "newline", "release"}}

\* C25: at most one worker at a time is appending to the HTML log; each record
\* is written entirely while holding the lock, so the records of different
\* workers are never interleaved or cut short by one another.
C25_RecordsNotInterleaved ==
    /\ Cardinality(Writing) <= 1
    /\ \A w \in Writing : lock = w
    /\ \A k \in DOMAIN h_log :
          IF k % 2 = 1
          THEN /\ h_log[k].part = "json"
               /\ k = Len(h_log) =>
                      \E w \in Writing : w = h_log[k].writer /\ h_call[w].pc = "newline"
          ELSE /\ h_log[k].part = "newline"
               /\ h_log[k].writer = h_log[k - 1].writer
               /\ h_log[k].record = h_log[k - 1].record

C25_Witness ==
    /\ \E w \in Writers : lock = w /\ h_call[w].pc = "newline"
    /\ \E w \in Writers : lock # w /\ h_call[w].pc = "acquire"
    /\ Len(h_log) = 3
    /\ h_log[1].writer # h_log[3].writer

\* C28: the code-metadata file written at the end of a crawl() call holds
\* records only for pages of the site of that call, also when the same
\* WebCrawler instance has crawled other sites before.
C28_OnlyThisCall ==
    \A u \in {start_url, UrlOther} :
        \A n \in DOMAIN metadata_files[u] : metadata_files[u][n].url \in SitePages(u)

\* C22: for a <pre> node with a text of one or more lines,
\* _preserve_code_formatting removes from every non-blank line exactly the
\* minimum leading-whitespace width of the non-blank lines and leaves blank
\* lines unchanged, so that some non-blank line ends up with no leading whitespace.
C22_CommonIndentRemoved ==
    (p_pc = "returned" /\ NonBlank(p_lines) # {}) =>
        /\ Len(p_content) = Len(p_lines)
        /\ \A k \in DOMAIN p_lines :
              IF k \in NonBlank(p_lines)
              THEN /\ p_content[k].body = p_lines[k].body
                   /\ p_content[k].indent = p_lines[k].indent - min_indent(p_lines)
              ELSE p_content[k] = p_lines[k]
        /\ \E k \in NonBlank(p_lines) : p_content[k].indent = 0

\* the urls of the well-formed records with non-empty markup among the lines k..
RECURSIVE ExpectedText(_, _)
ExpectedText(lines, k) ==
    IF k > Len(lines) THEN << >>
    ELSE IF lines[k].kind = "record" /\ lines[k].text # ""
         THEN <<lines[k].url>> \o ExpectedText(lines, k + 1)
         ELSE ExpectedText(lines, k + 1)

\* C26: when the HTML log is re-read, a line that fails to parse as JSON is
\* skipped without aborting and all other lines are still processed: the output
\* has one text record, in input order, for each well-formed line with
\* non-empty markup, whatever the position and number of malformed lines.
C26_MalformedLinesSkipped ==
    /\ t_pc # "aborted"
    /\ t_pc = "done" => t_text = ExpectedText(t_html, 1)

C26_Witness ==
    /\ t_pc = "done"
    /\ Len(t_html) = 3
    /\ t_html[1].kind = "malformed"
    /\ t_html[2].kind = "record" /\ t_html[2].text # ""
    /\ t_html[3].kind = "malformed"
    /\ t_text = <<t_html[2].url>>

\* the identifier the declaration pattern of the language captures: the second
\* group of (def|class)\s+(\w+), the second or third of the javascript
\* pattern, the only group of the others
DeclaredIdentifier(language, groups) ==
    IF language \in {"python", "javascript"} THEN FirstNonEmptyFrom(groups, 2)
    ELSE groups[1]

\* C23: for every language with a declaration pattern, when the pattern matches
\* the code text the returned name is '<identifier>_<language>' with the
\* identifier of the matched declaration, by the language-specific rule
C23_SpecificRuleFirst ==
    (n_pc = "returned" /\ n_language \in patterns
        /\ MatchGroups(n_language, n_code_text) # << >>)
    => /\ n_name.rule = "specific"
       /\ n_name.name = <<DeclaredIdentifier(n_language, MatchGroups(n_language, n_code_text)), n_language>>

\* C30: within one call of extract_and_save_code_blocks no two blocks get the
\* same file name, so every block written so far still has its own file
C30_DistinctFiles ==
    \A j, k \in 1 .. Len(saved_files) :
        j # k => saved_files[j] # saved_files[k]

====
